---------------------------- MODULE Spec2Model ----------------------------
(***************************************************************************)
(* The level sequencer / turn loop of the App component of src/index.tsx:  *)
(* the React state of App, the event handlers that change it, and the      *)
(* continuations of handleTurn that run when an oracle call completes.     *)
(*                                                                         *)
(* An event handler and the render that follows it are one step.  A        *)
(* handler reads the state through the closure of the render that created  *)
(* it: the handlers of the views belong to the latest render, the          *)
(* onresult callback of a speech recognition object belongs to the render  *)
(* whose effect created the object, and the code after the await of        *)
(* handleTurn belongs to the render in which the turn was submitted.       *)
(*                                                                         *)
(* The text box (inputText, onChange) is an input of the submit steps: the *)
(* box can hold any utterance whenever Enter or SEND can be used.  The     *)
(* panic overlay (showPanic) changes nothing the turn loop reads.          *)
(***************************************************************************)
EXTENDS Integers, Sequences, FiniteSets, Bags, TLC

(* ------------------------------ bounds -------------------------------- *)

\* Submissions are accepted by the model while fewer calls are outstanding.
MaxPending == 2

\* Submissions are accepted by the model while the log of the level holds
\* fewer user entries than this, and has room for the three entries of a turn
\* within the log that this many successful turns of a level produce.
MaxTurns == 3

(* ------------------------- constants of the code ---------------------- *)

LEVEL_ORDER == <<"AIRPORT", "CUSTOMS", "SAFARI", "CAMP">>

InitialConfidence == 50

MinConfidence == 0

MaxConfidence == 100

MinDelta == -20

MaxDelta == 20

initialNpcMessage(id) ==
  CASE id = "AIRPORT" -> "Here is your boarding pass to Zanzibar. Have a nice flight."
    [] id = "CUSTOMS" -> "This camera equipment... very expensive. You need to pay import tax. 100 dollars. Cash."
    [] id = "SAFARI"  -> "Nothing here. Let's go check the marsh for lions."
    [] id = "CAMP"    -> "Habari. Welcome to camp. Dinner is at 8."

GameStates == {"INTRO", "PLAYING", "FEEDBACK", "LEVEL_SUCCESS", "GAME_OVER", "VICTORY"}

Statuses == {"CONTINUE", "PASS", "FAIL"}

ConnectionErrorText == "!! Connection error. Try again."

(* --------------------------- inputs of the model ---------------------- *)

\* What the user types or says: empty, whitespace only, and a real utterance.
Utterances == {"", "  ", "STOP!"}

\* The characters of an utterance (TLC's strings are atomic).
Chars(u) ==
  CASE u = ""      -> <<>>
    [] u = "  "    -> <<" ", " ">>
    [] u = "STOP!" -> <<"S", "T", "O", "P", "!">>

\* The confidenceDelta values the oracle answers with, inside [-20, 20].
Deltas == {MinDelta, MaxDelta}

\* The TurnResult objects a parseable oracle answer yields.
TurnResults ==
  [npcResponse : {"Checked to JRO."}, coachFeedback : {"Good power!"},
   confidenceDelta : Deltas, status : Statuses]

\* Objects that JSON.parse yields and the cast to TurnResult lets through
\* although their status is none of CONTINUE, PASS, FAIL.
MalformedResults ==
  [npcResponse : {"Checked to JRO."}, coachFeedback : {"Good power!"},
   confidenceDelta : Deltas, status : {"MAYBE"}]

(* ------------------------------ state --------------------------------- *)

VARIABLES
  gameState,        \* useState<GameState>('INTRO')
  currentLevelIdx,  \* useState(0), an index into LEVEL_ORDER counted from 0
  confidence,       \* useState(50)
  history,          \* useState([]): the message log, entries [role, text]
  isProcessing,     \* useState(false): the in-flight flag
  recognitionRef,   \* the render closure of the recognition object in the ref
  listening,        \* the started recognition objects (none or one)
  pending,          \* the handleTurn invocations suspended at the await (a bag)
  lastResult        \* history variable: the TurnResult the last step applied,
                    \* or that the last step was an ignored submission

vars ==
  <<gameState, currentLevelIdx, confidence, history, isProcessing,
    recognitionRef, listening, pending, lastResult>>

(* ----------------------------- helpers -------------------------------- *)

currentLevel(idx) == LEVEL_ORDER[idx + 1]

Entry(role, text) == [role |-> role, text |-> text]

OpeningEntry(idx) == Entry("npc", initialNpcMessage(currentLevel(idx)))

Min(a, b) == IF a < b THEN a ELSE b

Max(a, b) == IF a > b THEN a ELSE b

\* Clamp with the lower bound forgotten: Math.min(100, x)
ClampNoFloor(x) == Min(MaxConfidence, x)

\* Math.min(100, Math.max(0, x))
Clamp(x) == Min(MaxConfidence, Max(MinConfidence, x))

IsWhitespace(ch) == ch = " "

RECURSIVE TrimStart(_)
TrimStart(s) ==
  IF s # <<>> /\ IsWhitespace(Head(s)) THEN TrimStart(Tail(s)) ELSE s

RECURSIVE TrimEnd(_)
TrimEnd(s) ==
  IF s # <<>> /\ IsWhitespace(s[Len(s)])
    THEN TrimEnd(SubSeq(s, 1, Len(s) - 1))
    ELSE s

\* String.prototype.trim on the characters of a string
Trim(s) == TrimEnd(TrimStart(s))

\* The test without the trim: !userMessage
IsBlankNoTrim(u) == Chars(u) = <<>>

\* !userMessage.trim()
IsBlank(u) == Trim(Chars(u)) = <<>>

\* The state a render hands to the handlers it creates.
Closure(c, idx, h) == [confidence |-> c, currentLevelIdx |-> idx, history |-> h]

\* history.filter(h => h.role === 'npc').slice(-1)[0]?.text || initialNpcMessage
NpcLastLine(cl) ==
  LET npcs == SelectSeq(cl.history, LAMBDA h : h.role = "npc")
  IN  IF npcs # <<>> /\ npcs[Len(npcs)].text # ""
        THEN npcs[Len(npcs)].text
        ELSE initialNpcMessage(currentLevel(cl.currentLevelIdx))

\* The coach entry of a successful turn: a chart emoji, then the feedback.
CoachText(result) ==
  (IF result.confidenceDelta > 0 THEN "^^ " ELSE "vv ") \o result.coachFeedback

\* One handleTurn invocation suspended at the await.  confidence is the value
\* its closure holds, prompt is what the call carries.  submitted and stale
\* are history fields: the state when the turn was submitted, and whether a
\* level reset (retry, next level) has happened since.
Call(userMessage, cl) ==
  [confidence |-> cl.confidence,
   prompt     |-> [level       |-> currentLevel(cl.currentLevelIdx),
                   npcLastLine |-> NpcLastLine(cl),
                   userMessage |-> userMessage],
   submitted  |-> [gameState |-> gameState, confidence |-> confidence,
                   currentLevelIdx |-> currentLevelIdx],
   stale      |-> FALSE]

\* lastResult when the last step was not a successful oracle answer
NoResult ==
  [npcResponse |-> "", coachFeedback |-> "", confidenceDelta |-> 0, status |-> "NONE"]

\* lastResult when the last step was a submission that handleTurn ignored
Ignored == [NoResult EXCEPT !.status = "IGNORED"]

\* The calls of bag b, each marked as issued before a level reset.
MarkStale(b) ==
  LET Marked(c) == [c EXCEPT !.stale = TRUE]
      Unmarked(c) == [c EXCEPT !.stale = FALSE]
  IN  [c \in {Marked(d) : d \in BagToSet(b)} |->
         CopiesIn(c, b) + CopiesIn(Unmarked(c), b)]

\* No outstanding call was issued before the latest level reset.  While one
\* is, the model takes no submission and no further reset: a call outlives
\* one reset, and the next thing that happens to the level is its answer.
NoStaleCall == \A c \in BagToSet(pending) : ~c.stale

(* ------------------------------ Init ---------------------------------- *)

Init ==
  /\ gameState = "INTRO"
  /\ currentLevelIdx = 0
  /\ confidence = InitialConfidence
  /\ history = <<>>
  /\ isProcessing = FALSE
  /\ recognitionRef = Closure(InitialConfidence, 0, <<>>)
  /\ listening = <<>>
  /\ pending = EmptyBag
  /\ lastResult = NoResult

(* ------------------------ level transitions --------------------------- *)

\* startGame, the START MISSION button of IntroView
StartGame ==
  /\ gameState = "INTRO"
  /\ gameState' = "PLAYING"
  /\ confidence' = InitialConfidence
  /\ history' = <<OpeningEntry(currentLevelIdx)>>
  /\ lastResult' = NoResult
  /\ UNCHANGED <<currentLevelIdx, isProcessing, recognitionRef,
                 listening, pending>>

\* The comparison off by one: currentLevelIdx < LEVEL_ORDER.length - 2
HasNextLevelOffByOne(idx) == idx < Len(LEVEL_ORDER) - 2

\* currentLevelIdx < LEVEL_ORDER.length - 1
HasNextLevel(idx) == idx < Len(LEVEL_ORDER) - 1

\* nextLevel, the NEXT CHAPTER button of LevelSuccessView.  The change of
\* currentLevelIdx re-runs the effect that creates the recognition object,
\* whose onresult then closes over the render after this handler.
NextLevel ==
  /\ gameState = "LEVEL_SUCCESS"
  /\ IF HasNextLevel(currentLevelIdx)
       THEN /\ NoStaleCall
            /\ currentLevelIdx' = currentLevelIdx + 1
            /\ confidence' = InitialConfidence
            /\ history' = <<OpeningEntry(currentLevelIdx + 1)>>
            /\ gameState' = "PLAYING"
            /\ recognitionRef' = Closure(confidence', currentLevelIdx', history')
            /\ pending' = MarkStale(pending)
       ELSE /\ gameState' = "VICTORY"
            /\ UNCHANGED <<currentLevelIdx, confidence, history, recognitionRef,
                           pending>>
  /\ lastResult' = NoResult
  /\ UNCHANGED <<isProcessing, listening>>

\* retryLevel with setConfidence(50) forgotten
RetryLevelKeepsConfidence ==
  /\ gameState = "GAME_OVER"
  /\ NoStaleCall
  /\ history' = <<OpeningEntry(currentLevelIdx)>>
  /\ gameState' = "PLAYING"
  /\ pending' = MarkStale(pending)
  /\ lastResult' = NoResult
  /\ UNCHANGED <<currentLevelIdx, confidence, isProcessing, recognitionRef,
                 listening>>

\* retryLevel, the TRY AGAIN button of GameOverView
RetryLevel ==
  /\ gameState = "GAME_OVER"
  /\ NoStaleCall
  /\ confidence' = InitialConfidence
  /\ history' = <<OpeningEntry(currentLevelIdx)>>
  /\ gameState' = "PLAYING"
  /\ pending' = MarkStale(pending)
  /\ lastResult' = NoResult
  /\ UNCHANGED <<currentLevelIdx, isProcessing, recognitionRef,
                 listening>>

(* --------------------------- turn submission -------------------------- *)

UserTurns(h) == Len(SelectSeq(h, LAMBDA e : e.role = "user"))

\* The model accepts a further submission.
WithinBounds ==
  /\ BagCardinality(pending) < MaxPending
  /\ UserTurns(history) < MaxTurns
  /\ Len(history) + 3 <= 1 + 3 * MaxTurns
  /\ NoStaleCall

\* handleTurn up to its await, called from the render closure cl
HandleTurn(userMessage, cl) ==
  IF IsBlank(userMessage)
    THEN /\ lastResult' = Ignored
         /\ UNCHANGED <<isProcessing, history, pending>>
    ELSE /\ WithinBounds
         /\ isProcessing' = TRUE
         /\ history' = Append(history, Entry("user", userMessage))
         /\ pending' = pending (+) SetToBag({Call(userMessage, cl)})
         /\ lastResult' = NoResult

\* onKeyDown of the text box with the Enter key, the box holding inputText
PressEnter(inputText) ==
  /\ gameState = "PLAYING"
  /\ HandleTurn(inputText, Closure(confidence, currentLevelIdx, history))
  /\ UNCHANGED <<gameState, currentLevelIdx, confidence, recognitionRef, listening>>

\* disabled={!inputText.trim() || isProcessing}
SendDisabled(inputText) == IsBlank(inputText) \/ isProcessing

\* onClick of the SEND button, the box holding inputText
ClickSend(inputText) ==
  /\ gameState = "PLAYING"
  /\ ~SendDisabled(inputText)
  /\ HandleTurn(inputText, Closure(confidence, currentLevelIdx, history))
  /\ UNCHANGED <<gameState, currentLevelIdx, confidence, recognitionRef, listening>>

(* -------------------------- speech recognition ------------------------ *)

\* isListening, set by onstart and cleared by onend
isListening == listening # <<>>

\* toggleMic, the microphone button, when nothing is listening: start() the
\* object in the ref.  (When something is listening it calls stop(), after
\* which the started object still delivers what it heard and then ends.)
ToggleMic ==
  /\ gameState = "PLAYING"
  /\ ~isListening
  /\ listening' = <<recognitionRef>>
  /\ lastResult' = NoResult
  /\ UNCHANGED <<gameState, currentLevelIdx, confidence, history, isProcessing,
                 recognitionRef, pending>>

\* recognition.onresult, then onend: with continuous = false the object
\* delivers one result and ends.
RecognitionResult(transcript) ==
  /\ isListening
  /\ HandleTurn(transcript, listening[1])
  /\ listening' = <<>>
  /\ UNCHANGED <<gameState, currentLevelIdx, confidence, recognitionRef>>

\* recognition.onend without a result
RecognitionEnd ==
  /\ isListening
  /\ listening' = <<>>
  /\ lastResult' = NoResult
  /\ UNCHANGED <<gameState, currentLevelIdx, confidence, history, isProcessing,
                 recognitionRef, pending>>

(* ---------------------------- oracle answers -------------------------- *)

\* The phase rule with the newConfidence <= 0 test forgotten
PhaseAfterTurnNoCollapse(status, newConfidence, phase) ==
  IF status = "FAIL" THEN "GAME_OVER"
  ELSE IF status = "PASS" THEN "LEVEL_SUCCESS"
  ELSE phase

\* The phase rule with PASS tested before the collapse of confidence
PhaseAfterTurnPassFirst(status, newConfidence, phase) ==
  IF status = "PASS" THEN "LEVEL_SUCCESS"
  ELSE IF status = "FAIL" \/ newConfidence <= 0 THEN "GAME_OVER"
  ELSE phase

\* The phase rule with a local threshold: PASS honoured only above 80
PhaseAfterTurnThreshold(status, newConfidence, phase) ==
  IF status = "FAIL" \/ newConfidence <= 0 THEN "GAME_OVER"
  ELSE IF status = "PASS" /\ newConfidence > 80 THEN "LEVEL_SUCCESS"
  ELSE phase

\* The phase after a successful turn:
\* if (status === 'FAIL' || newConfidence <= 0) GAME_OVER
\* else if (status === 'PASS') LEVEL_SUCCESS
PhaseAfterTurn(status, newConfidence, phase) ==
  IF status = "FAIL" \/ newConfidence <= 0 THEN "GAME_OVER"
  ELSE IF status = "PASS" THEN "LEVEL_SUCCESS"
  ELSE phase

\* handleTurn after its await when the call returned parseable JSON
OracleSuccess(call, result) ==
  LET newConfidence == Clamp(call.confidence + result.confidenceDelta)
  IN  /\ BagIn(call, pending)
      /\ confidence' = newConfidence
      /\ history' = history \o <<Entry("coach", CoachText(result)),
                                 Entry("npc", result.npcResponse)>>
      /\ gameState' = PhaseAfterTurn(result.status, newConfidence, gameState)
      /\ isProcessing' = FALSE
      /\ pending' = pending (-) SetToBag({call})
      /\ lastResult' = result
      /\ UNCHANGED <<currentLevelIdx, recognitionRef, listening>>

\* The failure path with the finally block forgotten
OracleFailureNoFinally(call) ==
  /\ BagIn(call, pending)
  /\ history' = Append(history, Entry("coach", ConnectionErrorText))
  /\ pending' = pending (-) SetToBag({call})
  /\ lastResult' = NoResult
  /\ UNCHANGED <<gameState, currentLevelIdx, confidence, isProcessing,
                 recognitionRef, listening>>

\* handleTurn after its await when the call raised or JSON.parse threw
OracleFailure(call) ==
  /\ BagIn(call, pending)
  /\ history' = Append(history, Entry("coach", ConnectionErrorText))
  /\ isProcessing' = FALSE
  /\ pending' = pending (-) SetToBag({call})
  /\ lastResult' = NoResult
  /\ UNCHANGED <<gameState, currentLevelIdx, confidence, recognitionRef,
                 listening>>

(* --------------------------- specification ---------------------------- *)

Next ==
  \/ StartGame
  \/ NextLevel
  \/ RetryLevel
  \/ \E u \in Utterances : PressEnter(u)
  \/ \E u \in Utterances : ClickSend(u)
  \/ ToggleMic
  \/ \E t \in Utterances : RecognitionResult(t)
  \/ RecognitionEnd
  \/ \E c \in BagToSet(pending) : \E r \in TurnResults : OracleSuccess(c, r)
  \/ \E c \in BagToSet(pending) : OracleFailure(c)

Spec == Init /\ [][Next]_vars

\* The turn loop with an oracle that may also answer with parseable JSON
\* that is no TurnResult.
NextMalformed ==
  \/ Next
  \/ \E c \in BagToSet(pending) : \E r \in MalformedResults : OracleSuccess(c, r)

SpecMalformed == Init /\ [][NextMalformed]_vars

\* A suspended handleTurn invocation resumes: its call returned or raised.
OracleAnswer ==
  \E c \in BagToSet(pending) :
    (\E r \in TurnResults : OracleSuccess(c, r)) \/ OracleFailure(c)

\* The turn loop when every oracle call eventually returns or raises.
FairSpec == Spec /\ WF_vars(OracleAnswer)

(* ------------------------------- claims ------------------------------- *)

\* The last step applied a successful oracle answer (lastResult is it).
Applied == lastResult.status \in Statuses

LastEntry(h) == h[Len(h)]

ErrorEntry == Entry("coach", ConnectionErrorText)

\* C1: in every reachable state the confidence value is an integer in
\* [0, 100], whatever deltas in [-20, 20] and statuses the oracle answers.
C1_ConfidenceInRange == confidence \in MinConfidence .. MaxConfidence

\* A negative delta was applied to a confidence below 20 and clamped to 0.
C1_Witness ==
  Applied /\ lastResult.confidenceDelta < 0 /\ confidence = MinConfidence

\* C2: while an oracle call is outstanding no step issues a further call or
\* appends a user entry to the log, so at most one call is ever outstanding.
C2_SingleTurnInFlight ==
  [][BagCardinality(pending) >= 1
       => /\ BagCardinality(pending') <= BagCardinality(pending)
          /\ UserTurns(history') <= UserTurns(history)]_vars

\* C3: the answer to a call issued before a level reset (retry, next level)
\* that arrives after the reset changes neither confidence, log nor phase.
C3_StaleAnswerDiscarded ==
  [][\A c \in BagToSet(pending) : \A r \in TurnResults :
       (c.stale /\ OracleSuccess(c, r))
         => UNCHANGED <<confidence, history, gameState>>]_vars

\* C4: while the phase is not PLAYING, only start, next-level and retry
\* change anything of the level: no submission appends to the log or issues
\* a call, and no oracle answer changes confidence, log or phase.
C4_NothingOutsidePlaying ==
  [][(gameState # "PLAYING" /\ ~(StartGame \/ NextLevel \/ RetryLevel))
       => /\ UNCHANGED <<confidence, history, gameState>>
          /\ BagCardinality(pending') <= BagCardinality(pending)]_vars

\* C5: after a successful oracle answer with status FAIL, or one that leaves
\* the clamped confidence at 0 or below whatever its status, the phase is
\* GAME_OVER.
C5_FailOrCollapseIsGameOver ==
  (Applied /\ (lastResult.status = "FAIL" \/ confidence <= 0))
    => gameState = "GAME_OVER"

\* An answer with status CONTINUE brought the confidence to 0: GAME_OVER.
C5_Witness ==
  /\ Applied
  /\ lastResult.status = "CONTINUE"
  /\ confidence = 0
  /\ gameState = "GAME_OVER"

\* C6: after a successful oracle answer with status PASS the phase is
\* LEVEL_SUCCESS only if the clamped confidence is above 0; when the
\* confidence is 0 the phase is GAME_OVER, not LEVEL_SUCCESS.
C6_PassHonouredAboveZero ==
  (Applied /\ lastResult.status = "PASS")
    => /\ gameState = "LEVEL_SUCCESS" => confidence > 0
       /\ confidence <= 0 => gameState = "GAME_OVER"

\* An answer with status PASS brought the confidence to 0: GAME_OVER.
C6_Witness ==
  /\ Applied
  /\ lastResult.status = "PASS"
  /\ confidence = 0
  /\ gameState = "GAME_OVER"

\* C7: right after start, retry, or next-level on a level that is not the
\* last, the phase is PLAYING, the confidence exactly 50 and the log exactly
\* the opening line of the level that is now current.
C7_FreshLevel ==
  [][(StartGame \/ RetryLevel \/ (NextLevel /\ currentLevelIdx # Len(LEVEL_ORDER) - 1))
       => /\ gameState' = "PLAYING"
          /\ confidence' = 50
          /\ history' = <<OpeningEntry(currentLevelIdx')>>]_vars

\* A later level has just been reset (entered or retried) while a call
\* issued before the reset was still outstanding.
C7_Witness ==
  /\ currentLevelIdx > 0
  /\ gameState = "PLAYING"
  /\ confidence = 50
  /\ history = <<OpeningEntry(currentLevelIdx)>>
  /\ ~NoStaleCall

\* C8: next-level on the final level (index 3, CAMP) sets the phase to
\* VICTORY and leaves the level index; on any other level it sets the phase
\* to PLAYING and adds exactly one to the level index.
C8_NextLevelOrVictory ==
  [][NextLevel
       => IF currentLevelIdx = 3
            THEN gameState' = "VICTORY" /\ currentLevelIdx' = currentLevelIdx
            ELSE gameState' = "PLAYING" /\ currentLevelIdx' = currentLevelIdx + 1]_vars

\* Victory has been entered from the final level.
C8_Witness ==
  gameState = "VICTORY" /\ currentLevel(currentLevelIdx) = "CAMP"

\* C9: when the oracle call of a submitted turn fails, the log gains exactly
\* one error entry, following the turn's user entry; confidence and phase
\* are what they were before the submission; the in-flight flag is false.
C9_FailureVoidsTurn ==
  [][\A c \in BagToSet(pending) :
       OracleFailure(c)
         => /\ history # <<>>
            /\ LastEntry(history) = Entry("user", c.prompt.userMessage)
            /\ history' = Append(history, ErrorEntry)
            /\ confidence' = c.submitted.confidence
            /\ gameState' = c.submitted.gameState
            /\ isProcessing' = FALSE]_vars

\* C10: for a turn submitted in PLAYING with confidence c, an answer with
\* status CONTINUE and delta d with min(100, max(0, c + d)) > 0 makes the
\* confidence min(100, max(0, c + d)), leaves the phase PLAYING and leaves
\* the log ending with the turn's user entry, a coach entry and an NPC entry.
C10_ContinueAppliesDelta ==
  [][\A c \in BagToSet(pending) : \A r \in TurnResults :
       (/\ OracleSuccess(c, r)
        /\ r.status = "CONTINUE"
        /\ c.submitted.gameState = "PLAYING"
        /\ Min(100, Max(0, c.submitted.confidence + r.confidenceDelta)) > 0)
         => /\ confidence' = Min(100, Max(0, c.submitted.confidence + r.confidenceDelta))
            /\ gameState' = "PLAYING"
            /\ history # <<>>
            /\ LastEntry(history) = Entry("user", c.prompt.userMessage)
            /\ history' = history \o <<Entry("coach", CoachText(r)),
                                       Entry("npc", r.npcResponse)>>]_vars

\* C11: every step that issues an oracle call leaves the in-flight flag
\* true, every step that completes a call (with an answer or a failure)
\* leaves it false, and, when every call eventually returns or raises, an
\* outstanding call is eventually followed by a state with the flag false.
C11_FlagSetThenReleased ==
  /\ [][/\ BagCardinality(pending') > BagCardinality(pending) => isProcessing'
        /\ BagCardinality(pending') < BagCardinality(pending) => ~isProcessing']_vars
  /\ (BagCardinality(pending) >= 1) ~> ~isProcessing

\* The only outstanding call has failed: error entry logged, flag false.
C11_Witness ==
  /\ history # <<>>
  /\ LastEntry(history) = ErrorEntry
  /\ pending = EmptyBag
  /\ ~isProcessing

\* Utterance u is empty or consists of whitespace only.
WhitespaceOnly(u) == \A i \in 1 .. Len(Chars(u)) : Chars(u)[i] = " "

\* C12: when an oracle call raises, or its response is unparseable, or it
\* parses to an object whose status is none of CONTINUE, PASS, FAIL, the
\* step that handles it leaves confidence and phase unchanged and appends a
\* single error entry to the log.
C12_MalformedIsFailure ==
  [][\A c \in BagToSet(pending) :
       (OracleFailure(c) \/ \E r \in MalformedResults : OracleSuccess(c, r))
         => /\ confidence' = confidence
            /\ gameState' = gameState
            /\ history' = Append(history, ErrorEntry)]_vars

\* C13: a submission (Enter, SEND, speech result) of an utterance that is
\* empty or whitespace-only changes none of phase, level index, confidence,
\* log and in-flight flag, and issues no oracle call.
C13_BlankIgnored ==
  [][\A u \in Utterances :
       (WhitespaceOnly(u) /\ (PressEnter(u) \/ ClickSend(u) \/ RecognitionResult(u)))
         => UNCHANGED <<gameState, currentLevelIdx, confidence, history,
                        isProcessing, pending>>]_vars

\* A blank submission has just been ignored in the middle of a level, while
\* an oracle call was outstanding.
C13_Witness ==
  /\ lastResult = Ignored
  /\ gameState = "PLAYING"
  /\ Len(history) > 1
  /\ BagCardinality(pending) >= 1

\* C14: a submission of a non-blank utterance in PLAYING makes the phase
\* FEEDBACK; the phase stays FEEDBACK while a call is outstanding; it goes
\* back to PLAYING when the call is answered CONTINUE with a confidence
\* above 0, or fails.
C14_FeedbackPending ==
  [][/\ (gameState = "PLAYING" /\ UserTurns(history') > UserTurns(history))
          => gameState' = "FEEDBACK"
     /\ (gameState = "FEEDBACK" /\ BagCardinality(pending') >= 1)
          => gameState' = "FEEDBACK"
     /\ \A c \in BagToSet(pending) : \A r \in TurnResults :
          (/\ gameState = "FEEDBACK"
           /\ \/ OracleSuccess(c, r) /\ r.status = "CONTINUE" /\ confidence' > 0
              \/ OracleFailure(c))
            => gameState' = "PLAYING"]_vars

\* C15: a successful answer to a turn that was submitted in PLAYING after
\* every earlier turn had completed, and that is still the last thing in the
\* log of its level, makes the confidence min(100, max(0, c + d)), c being
\* the confidence the previous turn left and d the answer's delta, whether
\* the turn came from the text box or from the speech callback.
C15_DeltasAccumulate ==
  [][\A c \in BagToSet(pending) : \A r \in TurnResults :
       (/\ OracleSuccess(c, r)
        /\ pending = SetToBag({c})
        /\ ~c.stale
        /\ c.submitted.gameState = "PLAYING"
        /\ history # <<>>
        /\ LastEntry(history) = Entry("user", c.prompt.userMessage))
         => confidence' = Min(100, Max(0, confidence + r.confidenceDelta))]_vars

\* C16: a step that appends a user entry to the log issues exactly one
\* oracle call, and the NPC last line that call carries is the text of the
\* latest NPC entry of the log at that moment (the opening line of the
\* level when the log holds no oracle reply yet).
C16_OneCallWithLastNpcLine ==
  [][UserTurns(history') > UserTurns(history)
       => /\ BagCardinality(pending') = BagCardinality(pending) + 1
          /\ \E c \in BagToSet(pending') :
               /\ CopiesIn(c, pending') = CopiesIn(c, pending) + 1
               /\ c.prompt.npcLastLine =
                    NpcLastLine(Closure(confidence, currentLevelIdx, history))]_vars

\* C17: after a successful oracle answer with status PASS that leaves the
\* confidence anywhere in 1..80 the phase is LEVEL_SUCCESS: no local
\* threshold on the confidence is enforced.
C17_PassTrustedBelowThreshold ==
  (Applied /\ lastResult.status = "PASS" /\ confidence \in 1 .. 80)
    => gameState = "LEVEL_SUCCESS"

\* A PASS with a negative delta left the confidence below 50: LEVEL_SUCCESS.
C17_Witness ==
  /\ Applied
  /\ lastResult.status = "PASS"
  /\ lastResult.confidenceDelta < 0
  /\ confidence \in 1 .. 49
  /\ gameState = "LEVEL_SUCCESS"

\* C18: the phase becomes LEVEL_SUCCESS only by a PASS answer to a turn that
\* was submitted in the level that is current; the level index changes only
\* from LEVEL_SUCCESS and by one; VICTORY is entered only from LEVEL_SUCCESS
\* of the last level.  So VICTORY follows a passed turn of each of AIRPORT,
\* CUSTOMS, SAFARI and CAMP, in this order.
C18_LevelsPassedInOrder ==
  [][/\ (gameState' = "LEVEL_SUCCESS" /\ gameState # "LEVEL_SUCCESS")
          => \E c \in BagToSet(pending) : \E r \in TurnResults :
               /\ OracleSuccess(c, r)
               /\ r.status = "PASS"
               /\ c.submitted.currentLevelIdx = currentLevelIdx
     /\ currentLevelIdx' # currentLevelIdx
          => gameState = "LEVEL_SUCCESS" /\ currentLevelIdx' = currentLevelIdx + 1
     /\ (gameState' = "VICTORY" /\ gameState # "VICTORY")
          => /\ gameState = "LEVEL_SUCCESS"
             /\ currentLevel(currentLevelIdx) = "CAMP"]_vars

\* C19: once the phase is VICTORY no later step changes it, an oracle answer
\* that arrives after VICTORY was entered included.
C19_VictoryAbsorbing ==
  [][gameState = "VICTORY" => gameState' = "VICTORY"]_vars

\* C20: in every reachable state with at least one oracle call outstanding
\* the in-flight flag isProcessing is true.
C20_FlagWhileOutstanding ==
  BagCardinality(pending) >= 1 => isProcessing

=============================================================================
